---------------------------- MODULE Spec2Model ----------------------------
(***************************************************************************)
(* RobustScaler (src/src/lib.rs): per-feature centring by the median and   *)
(* scaling by the interquartile range, with the order-statistics kernel    *)
(* (median, quantile) it is built on.                                      *)
(*                                                                         *)
(* Numbers.  An f64 is modelled as an extended rational <<n, d>>:          *)
(*   d > 0, gcd(|n|, d) = 1   the finite value n/d                         *)
(*   <<1, 0>>, <<-1, 0>>      +infinity, -infinity                         *)
(*   <<0, 0>>                 NaN                                          *)
(* Sums, differences and products of the inputs used here (small integers  *)
(* and quarters) are exact in f64, so the rational is the f64 value; a     *)
(* quotient that is not a dyadic rational stands for the f64 nearest to    *)
(* it, and the literal 1e-8 stands for the f64 nearest to 10^-8.  The sign *)
(* of zero is not modelled.                                                *)
(***************************************************************************)
EXTENDS Integers, Sequences, FiniteSets

VARIABLES center_, scale_, op, arg, ret

vars == <<center_, scale_, op, arg, ret>>

(***************************************************************************)
(* Bounds of the model.                                                    *)
(***************************************************************************)
\* A feature matrix has at most MaxCells entries (rows * columns).
MaxCells == 4
\* ... in at most MaxCols columns; a row handed to transform_1d and the
\* sequences of a loaded parameter record have at most MaxCols entries.
MaxCols == 2
\* The kernel is exercised on sequences of at most MaxLen values ...
MaxLen == 4
\* ... drawn from 0 .. MaxVal (and the infinities and NaN).
MaxVal == 2

(***************************************************************************)
(* f64 values and the arithmetic the source uses.                          *)
(***************************************************************************)
NaN == <<0, 0>>
PosInf == <<1, 0>>
NegInf == <<-1, 0>>

Abs(i) == IF i < 0 THEN -i ELSE i
Sign(i) == IF i < 0 THEN -1 ELSE IF i > 0 THEN 1 ELSE 0

RECURSIVE GCD(_, _)
GCD(a, b) == IF b = 0 THEN a ELSE GCD(b, a % b)

\* The value n/d (d >= 0) in lowest terms; n/0 is an infinity or NaN.
Mk(n, d) ==
    IF d = 0 THEN <<Sign(n), 0>>
    ELSE LET g == GCD(Abs(n), d) IN <<n \div g, d \div g>>

\* An integer (a usize, or an integral literal) as f64.
F(i) == <<i, 1>>

IsNaN(a) == a = NaN
IsFinite(a) == a[2] > 0

Neg(a) == <<-a[1], a[2]>>

\* a + b
Add(a, b) ==
    IF a[2] = 0 /\ b[2] = 0
    THEN (IF a = b THEN a ELSE NaN)
    ELSE Mk(a[1] * b[2] + b[1] * a[2], a[2] * b[2])

\* a - b
Sub(a, b) == Add(a, Neg(b))

\* a * b
Mul(a, b) == Mk(a[1] * b[1], a[2] * b[2])

\* a / b
Div(a, b) ==
    LET r == IF b[1] < 0 THEN <<-b[2], -b[1]>> ELSE <<b[2], b[1]>>
    IN  Mul(a, r)

\* a.partial_cmp(b): "None" when either is NaN.
PartialCmp(a, b) ==
    IF IsNaN(a) \/ IsNaN(b) THEN "None"
    ELSE IF a = b THEN "Equal"
    ELSE IF a = NegInf \/ b = PosInf THEN "Less"
    ELSE IF a = PosInf \/ b = NegInf THEN "Greater"
    ELSE IF a[1] * b[2] < b[1] * a[2] THEN "Less" ELSE "Greater"

\* f64::max: the other operand when one is NaN.
FMax(a, b) ==
    IF IsNaN(a) THEN b
    ELSE IF IsNaN(b) THEN a
    ELSE IF PartialCmp(a, b) = "Less" THEN b ELSE a

\* index.floor() as usize: the cast saturates (NaN and negatives give 0).
FloorAsUsize(a) ==
    IF IsNaN(a) THEN 0
    ELSE IF a = PosInf THEN 2147483647
    ELSE IF a[1] < 0 THEN 0
    ELSE a[1] \div a[2]

RECURSIVE Pow2(_)
Pow2(k) == IF k = 0 THEN 1 ELSE 2 * Pow2(k - 1)

\* The exponent e >= 0 with a / (d * 2^e) < 2^24, least such, for a/d >= 2^24.
RECURSIVE ExpUp(_, _, _)
ExpUp(a, d, e) == IF a < d * Pow2(e) * Pow2(24) THEN e ELSE ExpUp(a, d, e + 1)

\* The k >= 0 with a * 2^k / d >= 2^23, least such, for 0 < a/d < 2^24.
RECURSIVE ExpDown(_, _, _)
ExpDown(a, d, k) == IF a * Pow2(k) >= d * Pow2(23) THEN k ELSE ExpDown(a, d, k + 1)

\* p / q rounded to the nearest integer, ties to even (p >= 0, q > 0).
RoundHalfEven(p, q) ==
    LET f == p \div q
        r == p % q
    IN  IF 2 * r < q THEN f
        ELSE IF 2 * r > q THEN f + 1
        ELSE IF f % 2 = 0 THEN f ELSE f + 1

\* x as f32: the nearest value with a 24-bit significand, ties to even.
AsF32(a) ==
    IF a[2] = 0 \/ a[1] = 0 THEN a
    ELSE LET n == Abs(a[1])
             d == a[2]
         IN  IF n >= d * Pow2(24)
             THEN LET e == ExpUp(n, d, 1)
                  IN  Mk(Sign(a[1]) * RoundHalfEven(n, d * Pow2(e)) * Pow2(e), 1)
             ELSE LET k == ExpDown(n, d, 0)
                  IN  Mk(Sign(a[1]) * RoundHalfEven(n * Pow2(k), d), Pow2(k))

\* The literal 1e-8 of fit.
Eps == Mk(1, 100000000)

(***************************************************************************)
(* Order-statistics kernel.  A kernel call returns [panic, val].           *)
(***************************************************************************)
Returned(v) == [panic |-> FALSE, val |-> v]
Panicked == [panic |-> TRUE, val |-> NaN]

\* Place x in the ascending sequence s, after the elements not greater (the
\* sort is stable).
RECURSIVE Insert(_, _)
Insert(s, x) ==
    IF s = <<>> THEN <<x>>
    ELSE IF PartialCmp(x, s[Len(s)]) = "Less"
         THEN Append(Insert(SubSeq(s, 1, Len(s) - 1), x), s[Len(s)])
         ELSE Append(s, x)

RECURSIVE InsertionSort(_)
InsertionSort(s) ==
    IF s = <<>> THEN <<>>
    ELSE Insert(InsertionSort(SubSeq(s, 1, Len(s) - 1)), s[Len(s)])

\* sorted.sort_by(|a, b| a.partial_cmp(b).unwrap()): a sequence of two or
\* more values compares each of them with another, and the unwrap panics on
\* the None a NaN compares to; a shorter sequence is compared with nothing.
SortPanics(s) == Len(s) >= 2 /\ \E k \in 1..Len(s) : IsNaN(s[k])

\* median(data)
median(data) ==
    LET n == Len(data)
        sorted == InsertionSort(data)
    IN  IF SortPanics(data) THEN Panicked
        ELSE IF n % 2 = 0
        THEN (IF n = 0 THEN Panicked
              ELSE Returned(Div(Add(sorted[n \div 2], sorted[n \div 2 + 1]), F(2))))
        ELSE Returned(sorted[n \div 2 + 1])

\* quantile(data, q)
quantile(data, q) ==
    LET sorted == InsertionSort(data)
        n == F(Len(data))
        index == Mul(q, Sub(n, F(1)))
        i == FloorAsUsize(index)
        t == Sub(index, F(i))
    IN  IF ~(PartialCmp(q, F(0)) \in {"Greater", "Equal"}
             /\ PartialCmp(q, F(1)) \in {"Less", "Equal"}) THEN Panicked
        ELSE IF SortPanics(data) THEN Panicked
        ELSE IF Len(sorted) = 0 THEN Panicked
        ELSE IF i >= Len(sorted) - 1 THEN Returned(sorted[Len(sorted)])
        ELSE Returned(Add(sorted[i + 1], Mul(t, Sub(sorted[i + 2], sorted[i + 1]))))

(***************************************************************************)
(* RobustScaler.  A matrix is [nrows, ncols, at], at[r][c] its entries.    *)
(***************************************************************************)
\* data.column(i).to_owned(), columns counted from 1
Column(data, i) == [r \in 1..data.nrows |-> data.at[r][i]]

\* (q3 - q1) without the floor: a scale of zero for a constant column.
IqrNoFloor(q1, q3) == Sub(q3, q1)

\* let iqr = (q3 - q1).max(1e-8)
Iqr(q1, q3) == FMax(Sub(q3, q1), Eps)

\* The loop of fit from column i on, center and scale as accumulated so far:
\* a panic of the kernel ends it with what has been pushed.
RECURSIVE FitLoop(_, _, _, _)
FitLoop(data, i, center, scale) ==
    IF i > data.ncols THEN [center |-> center, scale |-> scale, panic |-> FALSE]
    ELSE LET feature == Column(data, i)
             c == median(feature)
             q1 == quantile(feature, Mk(1, 4))
             q3 == quantile(feature, Mk(3, 4))
         IN  IF c.panic \/ q1.panic \/ q3.panic
             THEN [center |-> center, scale |-> scale, panic |-> TRUE]
             ELSE FitLoop(data, i + 1, Append(center, c.val),
                          Append(scale, Iqr(q1.val, q3.val)))

\* fit that does not clear: the new parameters follow the prior ones.
fit_noclear(center, scale, data) == FitLoop(data, 1, center, scale)

\* fit on an estimator holding (center, scale): both are cleared first.
fit(center, scale, data) == FitLoop(data, 1, <<>>, <<>>)

\* mapv_inplace(|x| x / scale): the centre is not subtracted.
MapColumnNoCenter(m, i, center, scale) ==
    [r \in 1..Len(m) |->
        [c \in 1..Len(m[r]) |-> IF c = i THEN Div(m[r][c], scale) ELSE m[r][c]]]

\* result.column_mut(i).mapv_inplace(|x| (x - center) / scale)
MapColumn(m, i, center, scale) ==
    [r \in 1..Len(m) |->
        [c \in 1..Len(m[r]) |->
            IF c = i THEN Div(Sub(m[r][c], center), scale) ELSE m[r][c]]]

\* The loop of transform over center.iter().zip(&scale).enumerate().
RECURSIVE TransformLoop(_, _, _, _)
TransformLoop(m, i, center, scale) ==
    IF i > Len(center) \/ i > Len(scale) THEN m
    ELSE TransformLoop(MapColumn(m, i, center[i], scale[i]), i + 1, center, scale)

\* transform
transform(center, scale, data) ==
    IF data.ncols # Len(center) \/ data.ncols # Len(scale)
    THEN [tag |-> "Panic", val |-> <<>>]
    ELSE [tag |-> "Ok",
          val |-> [nrows |-> data.nrows, ncols |-> data.ncols,
                   at |-> TransformLoop(data.at, 1, center, scale)]]

Min3(a, b, c) ==
    IF a <= b /\ a <= c THEN a ELSE IF b <= c THEN b ELSE c

\* transform_1d
transform_1d(center, scale, input) ==
    IF Len(input) # Len(center)
    THEN [tag |-> "Panic", val |-> <<>>]
    ELSE [tag |-> "Ok",
          val |-> [k \in 1..Min3(Len(input), Len(center), Len(scale)) |->
                      AsF32(Div(Sub(input[k], center[k]), scale[k]))]]

\* from_json without the check of scale_'s length.
from_json_nocheck(source) ==
    IF source.kind = "unopenable" THEN [tag |-> "Err", val |-> source.error]
    ELSE IF source.kind = "unreadable" THEN [tag |-> "Err", val |-> "InvalidData"]
    ELSE IF source.kind = "malformed" THEN [tag |-> "Err", val |-> "InvalidData"]
    ELSE IF Len(source.center) # source.n_features_in
    THEN [tag |-> "Err", val |-> "InvalidData"]
    ELSE [tag |-> "Ok", val |-> [center |-> source.center, scale |-> source.scale]]

\* from_json with the two sequences of the record exchanged.
from_json_swapped(source) ==
    IF source.kind = "unopenable" THEN [tag |-> "Err", val |-> source.error]
    ELSE IF source.kind = "unreadable" THEN [tag |-> "Err", val |-> "InvalidData"]
    ELSE IF source.kind = "malformed" THEN [tag |-> "Err", val |-> "InvalidData"]
    ELSE IF Len(source.center) # source.n_features_in
    THEN [tag |-> "Err", val |-> "InvalidData"]
    ELSE IF Len(source.scale) # source.n_features_in
    THEN [tag |-> "Err", val |-> "InvalidData"]
    ELSE [tag |-> "Ok", val |-> [center |-> source.scale, scale |-> source.center]]

\* from_json on a source.  A path File::open fails on returns the error of
\* the open, of whatever kind the system reports; a file that opens and
\* cannot be read (a directory), like one that is not a parameter record,
\* fails in serde_json::from_reader, whose error map_err makes InvalidData.
from_json(source) ==
    IF source.kind = "unopenable" THEN [tag |-> "Err", val |-> source.error]
    ELSE IF source.kind = "unreadable" THEN [tag |-> "Err", val |-> "InvalidData"]
    ELSE IF source.kind = "malformed" THEN [tag |-> "Err", val |-> "InvalidData"]
    ELSE IF Len(source.center) # source.n_features_in
    THEN [tag |-> "Err", val |-> "InvalidData"]
    ELSE IF Len(source.scale) # source.n_features_in
    THEN [tag |-> "Err", val |-> "InvalidData"]
    ELSE [tag |-> "Ok", val |-> [center |-> source.center, scale |-> source.scale]]

\* n_features
n_features(center, scale) == Len(center)

(***************************************************************************)
(* Inputs.                                                                 *)
(***************************************************************************)
\* Entries of the matrices and rows: two numbers and NaN.
Samples == {F(0), F(1), NaN}

Shapes ==
    {<<r, c>> \in (0..MaxCells) \X (0..MaxCols) : r * c <= MaxCells}

\* The matrix of tests::test_transform_1d and its input row.
TestData ==
    [nrows |-> 3, ncols |-> 2,
     at |-> <<<<F(1), F(2)>>, <<F(3), F(4)>>, <<F(5), F(6)>>>>]
TestInput == <<F(1), F(2)>>

Matrices ==
    UNION {{[nrows |-> sh[1], ncols |-> sh[2], at |-> m] :
              m \in [1..sh[1] -> [1..sh[2] -> Samples]]} : sh \in Shapes}
    \cup {TestData}

Rows == UNION {[1..n -> Samples] : n \in 0..MaxCols} \cup {TestInput}

ParamCenters == UNION {[1..n -> {F(0), F(1)}] : n \in 0..MaxCols}
ParamScales == UNION {[1..n -> {F(0), F(1), F(3)}] : n \in 0..MaxCols}

\* Kinds of error File::open reports: a missing file, a file of another
\* user, a path under a regular file, a name longer than the system allows.
OpenErrors == {"NotFound", "PermissionDenied", "NotADirectory", "InvalidFilename"}

Sources ==
    {[kind |-> "unopenable", error |-> e] : e \in OpenErrors}
    \cup {[kind |-> "unreadable"], [kind |-> "malformed"]}
    \cup {[kind |-> "record", center |-> c, scale |-> s, n_features_in |-> n] :
            c \in ParamCenters, s \in ParamScales, n \in 0..MaxCols}

(***************************************************************************)
(* The estimator and its caller.  op, arg and ret hold the call that last  *)
(* ended: its name, its argument and what it returned (or that it          *)
(* panicked); op = "ready" once the caller has let go of the result.       *)
(***************************************************************************)
Init ==
    /\ center_ = <<>>
    /\ scale_ = <<>>
    /\ op = "new"
    /\ arg = <<>>
    /\ ret = [tag |-> "Ok", val |-> <<>>]

\* RobustScaler::new()
New ==
    /\ op = "ready"
    /\ center_' = <<>>
    /\ scale_' = <<>>
    /\ op' = "new"
    /\ arg' = <<>>
    /\ ret' = [tag |-> "Ok", val |-> <<>>]

\* scaler.fit(&data)
Fit ==
    /\ op = "ready"
    /\ \E data \in Matrices :
         LET f == fit(center_, scale_, data)
         IN  /\ center_' = f.center
             /\ scale_' = f.scale
             /\ op' = "fit"
             /\ arg' = data
             /\ ret' = [tag |-> IF f.panic THEN "Panic" ELSE "Ok", val |-> <<>>]

\* scaler.transform(&data)
Transform ==
    /\ op = "ready"
    /\ \E data \in Matrices :
         /\ op' = "transform"
         /\ arg' = data
         /\ ret' = transform(center_, scale_, data)
    /\ UNCHANGED <<center_, scale_>>

\* scaler.transform_1d(&input)
Transform1d ==
    /\ op = "ready"
    /\ \E input \in Rows :
         /\ op' = "transform_1d"
         /\ arg' = input
         /\ ret' = transform_1d(center_, scale_, input)
    /\ UNCHANGED <<center_, scale_>>

\* scaler.fit_transform(&data): fit, then (unless fit panicked) transform.
FitTransform ==
    /\ op = "ready"
    /\ \E data \in Matrices :
         LET f == fit(center_, scale_, data)
         IN  /\ center_' = f.center
             /\ scale_' = f.scale
             /\ op' = "fit_transform"
             /\ arg' = data
             /\ ret' = IF f.panic THEN [tag |-> "Panic", val |-> <<>>]
                       ELSE transform(f.center, f.scale, data)

\* RobustScaler::from_json(path): the estimator it returns takes the place of
\* the caller's; an Err returns none, and the caller's stays.
FromJson ==
    /\ op = "ready"
    /\ \E source \in Sources :
         LET r == from_json(source)
         IN  /\ center_' = IF r.tag = "Ok" THEN r.val.center ELSE center_
             /\ scale_' = IF r.tag = "Ok" THEN r.val.scale ELSE scale_
             /\ op' = "from_json"
             /\ arg' = source
             /\ ret' = r

\* scaler.n_features()
NFeatures ==
    /\ op = "ready"
    /\ op' = "n_features"
    /\ arg' = <<>>
    /\ ret' = [tag |-> "Ok", val |-> n_features(center_, scale_)]
    /\ UNCHANGED <<center_, scale_>>

\* The caller takes what the call returned (or catches its unwinding) and
\* goes on to its next call.
Ready ==
    /\ op # "ready"
    /\ op' = "ready"
    /\ arg' = <<>>
    /\ ret' = [tag |-> "Ok", val |-> <<>>]
    /\ UNCHANGED <<center_, scale_>>

Next ==
    \/ New
    \/ Fit
    \/ Transform
    \/ Transform1d
    \/ FitTransform
    \/ FromJson
    \/ NFeatures
    \/ Ready

Spec == Init /\ [][Next]_vars

(***************************************************************************)
(* The kernel on its own: a sequence and a q are drawn, then median or     *)
(* quantile is applied to them.                                            *)
(***************************************************************************)
\* The values of a sequence: small numbers, the infinities and NaN.
KernelVals == {F(v) : v \in 0..MaxVal} \cup {PosInf, NegInf, NaN}

KernelSeqs == UNION {[1..n -> KernelVals] : n \in 0..MaxLen}

\* The q of fit, the ends and the middle of the range, and values outside it.
KernelQs ==
    {F(0), Mk(1, 4), Mk(1, 2), Mk(3, 4), F(1), Mk(5, 4), Mk(-1, 4), NaN}

InitKernel ==
    /\ center_ = <<>>
    /\ scale_ = <<>>
    /\ op = "input"
    /\ arg \in {[data |-> x, q |-> q] : x \in KernelSeqs, q \in KernelQs}
    /\ ret = Panicked

Median ==
    /\ op = "input"
    /\ op' = "median"
    /\ ret' = median(arg.data)
    /\ UNCHANGED <<center_, scale_, arg>>

Quantile ==
    /\ op = "input"
    /\ op' = "quantile"
    /\ ret' = quantile(arg.data, arg.q)
    /\ UNCHANGED <<center_, scale_, arg>>

NextKernel ==
    \/ Median
    \/ Quantile

SpecKernel == InitKernel /\ [][NextKernel]_vars
(***************************************************************************)
(* What the properties are stated with: the order statistics of a sequence *)
(* by rank, and the interpolation rule on them.                            *)
(***************************************************************************)
Range(s) == {s[k] : k \in DOMAIN s}
NoNaNSeq(s) == \A k \in DOMAIN s : ~IsNaN(s[k])
NoNaN(data) == \A r \in 1..data.nrows : NoNaNSeq(data.at[r])
Lt(a, b) == PartialCmp(a, b) = "Less"
Le(a, b) == PartialCmp(a, b) \in {"Less", "Equal"}
AbsF(a) == <<Abs(a[1]), a[2]>>

\* The k-th smallest value of s (k from 1), ties counted.
OrderStat(s, k) ==
    CHOOSE v \in Range(s) :
        /\ Cardinality({j \in DOMAIN s : Lt(s[j], v)}) < k
        /\ k <= Cardinality({j \in DOMAIN s : Le(s[j], v)})

MinOf(s) == CHOOSE v \in Range(s) : \A w \in Range(s) : Le(v, w)
MaxOf(s) == CHOOSE v \in Range(s) : \A w \in Range(s) : Le(w, v)

\* The middle value, or the mean of the two middle values.
ClassicalMedian(s) ==
    LET n == Len(s)
    IN  IF n % 2 = 1 THEN OrderStat(s, (n + 1) \div 2)
        ELSE Div(Add(OrderStat(s, n \div 2), OrderStat(s, n \div 2 + 1)), F(2))

\* The rule index = q*(n-1), i = floor(index), t = index - i for q = qn/qd:
\* sorted[i] + t*(sorted[i+1] - sorted[i]), or the maximum when i >= n-1.
LinearQuantile(s, qn, qd) ==
    LET n == Len(s)
        i == (qn * (n - 1)) \div qd
        t == Mk((qn * (n - 1)) % qd, qd)
    IN  IF i >= n - 1 THEN MaxOf(s)
        ELSE Add(OrderStat(s, i + 1),
                 Mul(t, Sub(OrderStat(s, i + 2), OrderStat(s, i + 1))))

Floored(d) == IF Lt(d, Eps) THEN Eps ELSE d

IsFitCall == op \in {"fit", "fit_transform"}

(***************************************************************************)
(* Properties.                                                             *)
(***************************************************************************)
\* C1: after fit(X), X with at least one row (and no NaN, the one value the
\* kernel does not support), whatever the estimator held before, fit has
\* returned, n_features() is the column count of X, and for each column
\* center is its median and scale is max(Q3 - Q1, 1e-8), Q1 and Q3 by the
\* linear-interpolation rule; nothing of the prior state is left.
FitComputesMedianAndIqr ==
    (IsFitCall /\ arg.nrows >= 1 /\ NoNaN(arg)) =>
        /\ ret.tag = "Ok"
        /\ n_features(center_, scale_) = arg.ncols
        /\ Len(center_) = arg.ncols
        /\ Len(scale_) = arg.ncols
        /\ \A c \in 1..arg.ncols :
             LET col == Column(arg, c)
             IN  /\ center_[c] = ClassicalMedian(col)
                 /\ scale_[c] =
                      Floored(Sub(LinearQuantile(col, 3, 4), LinearQuantile(col, 1, 4)))

\* C1 witness: a fit of a 2 x 2 matrix has ended with an interpolated scale
\* for the first column and the floor for the second.
FitComputesMedianAndIqrWitness ==
    /\ op = "fit"
    /\ arg.nrows = 2
    /\ arg.ncols = 2
    /\ NoNaN(arg)
    /\ center_ = <<Mk(1, 2), F(1)>>
    /\ scale_ = <<Mk(1, 2), Eps>>

\* C2: a transform of a matrix M with n_features() columns returns a matrix
\* of M's shape with entry (r, c) = (M[r,c] - center[c]) / scale[c], and
\* transform, transform_1d and n_features leave center and scale as they
\* were (so the same call gives the same result again).
TransformIsAffineAndPure ==
    [][/\ (op' = "transform" /\ arg'.ncols = n_features(center_, scale_)) =>
            /\ ret'.tag = "Ok"
            /\ ret'.val.nrows = arg'.nrows
            /\ ret'.val.ncols = arg'.ncols
            /\ DOMAIN ret'.val.at = 1..arg'.nrows
            /\ \A r \in 1..arg'.nrows :
                 /\ DOMAIN ret'.val.at[r] = 1..arg'.ncols
                 /\ \A c \in 1..arg'.ncols :
                      ret'.val.at[r][c] = Div(Sub(arg'.at[r][c], center_[c]), scale_[c])
       /\ (op' \in {"transform", "transform_1d", "n_features"}) =>
            (center_' = center_ /\ scale_' = scale_)]_vars

\* C2 witness: a transform of a two-row, two-column matrix has returned a
\* matrix with a changed finite entry.
TransformIsAffineAndPureWitness ==
    /\ op = "transform"
    /\ ret.tag = "Ok"
    /\ arg.nrows = 2
    /\ arg.ncols = 2
    /\ center_ = <<Mk(1, 2), F(1)>>
    /\ \E r \in 1..2 : \E c \in 1..2 :
         IsFinite(ret.val.at[r][c]) /\ ret.val.at[r][c] # arg.at[r][c]

\* C3: in every state center and scale have the same length, n_features()
\* returns it, and a new estimator has both empty and n_features() = 0.
LengthsAgree ==
    /\ Len(center_) = Len(scale_)
    /\ op = "n_features" => (ret.val = Len(center_) /\ ret.val = Len(scale_))
    /\ op = "new" =>
         (center_ = <<>> /\ scale_ = <<>> /\ n_features(center_, scale_) = 0)

\* C3 witness: n_features() has returned 2.
LengthsAgreeWitness ==
    /\ op = "n_features"
    /\ ret.val = 2
    /\ Len(scale_) = 2

\* C4: a load of a record with len(center_) or len(scale_) different from
\* n_features_in_ returns the error InvalidData and no estimator, and the
\* estimator that exists keeps its center and scale; a load of a record with
\* both equal to n_features_in_ returns an estimator whose center and scale
\* are the record's sequences.
LoadValidates ==
    [][(op' = "from_json" /\ arg'.kind = "record") =>
         IF \/ Len(arg'.center) # arg'.n_features_in
            \/ Len(arg'.scale) # arg'.n_features_in
         THEN /\ ret' = [tag |-> "Err", val |-> "InvalidData"]
              /\ center_' = center_
              /\ scale_' = scale_
         ELSE /\ ret'.tag = "Ok"
              /\ ret'.val.center = arg'.center
              /\ ret'.val.scale = arg'.scale
              /\ center_' = arg'.center
              /\ scale_' = arg'.scale]_vars

\* C4 witness: a load whose scale_ alone has the wrong length has failed, and
\* a fitted estimator is still there.
LoadValidatesWitness ==
    /\ op = "from_json"
    /\ arg.kind = "record"
    /\ Len(arg.center) = arg.n_features_in
    /\ Len(arg.scale) # arg.n_features_in
    /\ ret.tag = "Err"
    /\ Len(center_) = 2
    /\ scale_[1] = Eps

\* C5 (as claimed): transform on an estimator whose center and scale are
\* empty aborts, whatever the matrix.
UnfitTransformAborts ==
    (op = "transform" /\ center_ = <<>> /\ scale_ = <<>>) => ret.tag = "Panic"

\* C6 (as claimed): transform_1d of a row whose length is not n_features()
\* returns an error value and does not abort.
Transform1dMismatchIsError ==
    (op = "transform_1d" /\ Len(arg) # n_features(center_, scale_)) =>
        ret.tag = "Err"

\* C7 (as claimed): for a non-empty sequence x (without NaN, which the kernel
\* does not support), quantile(x, 0) is the minimum of x, quantile(x, 1) the
\* maximum, and quantile(x, 0.5) equals median(x).
QuantileEndsAndMiddle ==
    (op = "quantile" /\ Len(arg.data) >= 1 /\ NoNaNSeq(arg.data)) =>
        /\ arg.q = F(0) => ret = Returned(MinOf(arg.data))
        /\ arg.q = F(1) => ret = Returned(MaxOf(arg.data))
        /\ arg.q = Mk(1, 2) => (~ret.panic /\ ret = median(arg.data))

TestTransform1dNearMinusHalf ==
    (/\ op = "transform_1d"
     /\ arg = TestInput
     /\ center_ = fit(<<>>, <<>>, TestData).center
     /\ scale_ = fit(<<>>, <<>>, TestData).scale) =>
        /\ ret.tag = "Ok"
        /\ Lt(AbsF(Sub(ret.val[1], Mk(-1, 2))), Mk(1, 100000))

\* C10 (as claimed): a fit or a load leaves the estimator with either the
\* parameters it had or the complete new ones (for a fit, one center and one
\* scale for every column of the matrix; for a load, the record's sequences).
UpdateIsAtomic ==
    [][/\ (op' \in {"fit", "fit_transform"}) =>
            \/ (center_' = center_ /\ scale_' = scale_)
            \/ (Len(center_') = arg'.ncols /\ Len(scale_') = arg'.ncols)
       /\ (op' = "from_json") =>
            \/ (center_' = center_ /\ scale_' = scale_)
            \/ (/\ arg'.kind = "record"
                /\ center_' = arg'.center
                /\ scale_' = arg'.scale)]_vars
====
